---- MODULE Spec2Model ----
(***************************************************************************)
(* Model of alexandria/events.py: Event (trigger / subscribe over trio     *)
(* memory channels guarded by a trio.Lock) and ReAwaitable.                *)
(*                                                                         *)
(* Every trigger() call and every subscribe() call runs in a task of its   *)
(* own.  Tasks interleave only at trio checkpoints, so each action below   *)
(* is the code a task runs between two checkpoints.                        *)
(***************************************************************************)
EXTENDS Integers, Sequences, FiniteSets, TLC

(* ------------------------------ bounds -------------------------------- *)
\* max_buffer_size of each memory channel; events.py:58 passes 256, the
\* model scales it down so that a full queue is reached
Capacity == 1
\* subscribe() calls made on the Event
MaxSubs == 2
\* tasks of the Event that get cancelled
MaxCancels == 1
\* trigger() calls made in all, two more than a queue holds; call i
\* carries payload i
MaxTriggers == Capacity + 2

\* tasks that await one ReAwaitable
NumAwaiters == 3
\* checkpoints the wrapped coroutine passes through before it finishes
MaxSuspends == 2
\* awaits each task makes on the ReAwaitable
MaxAwaits == 2

TriggerIds == 1..MaxTriggers
\* the calls made when tasks are also cancelled: one more than a queue holds
SoloTriggerIds == 1..(Capacity + 1)
SubIds == 1..MaxSubs

\* two of the events Events.__init__ declares, the ones the tests subscribe to
EventNames == {"session-created", "handshake-complete"}
MainEvent == "handshake-complete"

T(i) == <<"trigger", i>>
S(j) == <<"subscribe", j>>
Tasks == {T(i) : i \in TriggerIds} \cup {S(j) : j \in SubIds}
None == <<"none", 0>>
Awaiters == 1..NumAwaiters

VARIABLES
    event_of,     \* event_of[task]: the Event the task's call is made on
    lock_owner,   \* lock_owner[e]: trio.Lock._owner of e._lock, a task or None
    lock_lot,     \* lock_lot[e]: trio.Lock._lot, FIFO of tasks parked in acquire()
    channels,     \* channels[e]: e._channels, the send endpoints, named by SubIds
    data,         \* data[j]: MemoryChannelState.data of subscription j
    recv_closed,  \* recv_closed[j]: MemoryReceiveChannel._closed
    send_tasks,   \* send_tasks[j]: trigger calls parked in send() on j
    pc,           \* pc[task]: where each task stands
    visited,      \* visited[i]: endpoints the running for loop of call i has passed
    received,     \* received[j]: payloads receive() returned inside the scope
                  \* of j, forgotten when the scope is left
    lock_order,   \* history: lock_order[e], trigger calls on e in lock
                  \* acquisition order
    reg_at,       \* history: Len(lock_order[e]) when j was added, -1 while j
                  \* is not in the set
    cancel_called, \* subscriptions whose task was cancelled inside the scope
                  \* and has not left subscribe() yet
    woken_by,     \* history: woken_by[i], the subscription whose close()
                  \* rescheduled call i out of send(), 0 otherwise
    has_result,   \* hasattr(self, '_result') of the ReAwaitable
    coro,         \* the wrapped coroutine: "created", "suspended", "finished"
    susp_left,    \* checkpoints the wrapped coroutine has still to pass
    result,       \* how the wrapped coroutine ends: "value" or "failure"
    await_calls,  \* history: invocations of self._awaitable.__await__()
    effects,      \* history: times the wrapped coroutine's body was started
    apc,          \* apc[a]: "idle", "parked" in the await, or "done"
    awaited,      \* awaited[a]: awaits task a has begun
    began,        \* history: state of the coroutine when a's last await began
    out           \* out[a]: what the await gave awaiter a

event_vars == <<event_of, lock_owner, lock_lot, channels, data, recv_closed,
                send_tasks, pc, visited, received, lock_order, reg_at,
                cancel_called, woken_by>>
re_vars == <<has_result, coro, susp_left, result, await_calls, effects,
             apc, awaited, began, out>>
vars == <<event_vars, re_vars>>

(* --------------------------- trio.Lock -------------------------------- *)
\* the Event a call was made on
EvT(i) == event_of[T(i)]
EvS(j) == event_of[S(j)]

\* variant: acquire_nowait that never finds the lock taken
LockFreeAlways(e) == TRUE

\* variant: all Events share one lock
LockFreeShared(e) == \A f \in EventNames : lock_owner[f] = None

\* Lock.acquire_nowait succeeds iff nobody owns the lock
LockFree(e) == lock_owner[e] = None

\* pc of a task that was parked in Lock.acquire() once release() hands it
\* the lock
AfterGrant(p) ==
    CASE p = "wait_lock" -> "iterating"
      [] p = "sub_wait" -> "sub_locked"
      [] p = "unsub_wait" -> "unsub_locked"
      [] OTHER -> p

\* Lock.release() of e._lock: ownership passes to the first parked task, if
\* any
ReleasedOwner(e) ==
    [lock_owner EXCEPT ![e] =
        IF lock_lot[e] = <<>> THEN None ELSE Head(lock_lot[e])]
ReleasedLot(e) ==
    [lock_lot EXCEPT ![e] = IF lock_lot[e] = <<>> THEN <<>> ELSE Tail(lock_lot[e])]
ReleasedPc(p, e) ==
    IF lock_lot[e] = <<>> THEN p
    ELSE [p EXCEPT ![Head(lock_lot[e])] = AfterGrant(p[Head(lock_lot[e])])]
ReleasedOrder(e) ==
    IF lock_lot[e] # <<>> /\ Head(lock_lot[e])[1] = "trigger"
    THEN [lock_order EXCEPT ![e] = Append(@, Head(lock_lot[e])[2])]
    ELSE lock_order

\* ParkingLot abort: a cancelled task leaves the lot
RemoveFromLot(task, e) ==
    [lock_lot EXCEPT ![e] = SelectSeq(@, LAMBDA x : x # task)]

(* ------------------------------ Init ---------------------------------- *)
Init ==
    /\ event_of = [t \in Tasks |-> "none"]
    /\ lock_owner = [e \in EventNames |-> None]
    /\ lock_lot = [e \in EventNames |-> <<>>]
    /\ channels = [e \in EventNames |-> {}]
    /\ data = [j \in SubIds |-> <<>>]
    /\ recv_closed = [j \in SubIds |-> FALSE]
    /\ send_tasks = [j \in SubIds |-> <<>>]
    /\ pc = [t \in Tasks |-> "idle"]
    /\ visited = [i \in TriggerIds |-> {}]
    /\ received = [j \in SubIds |-> <<>>]
    /\ lock_order = [e \in EventNames |-> <<>>]
    /\ cancel_called = {}
    /\ woken_by = [i \in TriggerIds |-> 0]
    /\ reg_at = [j \in SubIds |-> -1]
    /\ has_result = FALSE
    /\ coro = "created"
    /\ susp_left = 0
    /\ result = "value"
    /\ await_calls = 0
    /\ effects = 0
    /\ apc = [a \in Awaiters |-> "idle"]
    /\ awaited = [a \in Awaiters |-> 0]
    /\ began = [a \in Awaiters |-> "none"]
    /\ out = [a \in Awaiters |-> "none"]

(* --------------------------- memory channel --------------------------- *)
\* variant: the capacity test off by one, the last slot never used
HasRoomOffByOne(j) == Len(data[j]) + 1 < Capacity

\* MemorySendChannel.send_nowait: there is room when fewer than
\* max_buffer_size payloads are queued
HasRoom(j) == Len(data[j]) < Capacity

\* MemoryReceiveChannel.close(): every task parked in send() is rescheduled
\* with BrokenResourceError
WokenBroken(p, j) ==
    [t \in Tasks |->
        IF t[1] = "trigger" /\ \E k \in 1..Len(send_tasks[j]) : send_tasks[j][k] = t[2]
        THEN "woken_broken" ELSE p[t]]

\* the calls close() of j reschedules are recorded as woken by j
WokenBy(j) ==
    [i \in TriggerIds |->
        IF i \in {send_tasks[j][k] : k \in 1..Len(send_tasks[j])}
        THEN j ELSE woken_by[i]]

\* endpoints the for loop of trigger call i has still to visit
Remaining(i) == channels[EvT(i)] \ visited[i]

\* calls are numbered in the order they are made
StartsInOrder(kind, n) ==
    \A m \in 1..(n - 1) : pc[<<kind, m>>] # "idle"

\* a further task may be cancelled
MayCancel ==
    Cardinality({t \in Tasks :
        \/ pc[t] \in {"woken_cancelled", "cancelled", "aborted"}
        \/ t[1] = "subscribe" /\ t[2] \in cancel_called}) < MaxCancels

(* --------------------------- Event.trigger ---------------------------- *)
\* trigger(): `async with self._lock` either takes the free lock or parks
TriggerCall(i, e) ==
    /\ pc[T(i)] = "idle"
    /\ StartsInOrder("trigger", i)
    /\ event_of' = [event_of EXCEPT ![T(i)] = e]
    /\ IF LockFree(e)
       THEN /\ lock_owner' = [lock_owner EXCEPT ![e] = T(i)]
            /\ pc' = [pc EXCEPT ![T(i)] = "iterating"]
            /\ lock_order' = [lock_order EXCEPT ![e] = Append(@, i)]
            /\ UNCHANGED lock_lot
       ELSE /\ lock_lot' = [lock_lot EXCEPT ![e] = Append(@, T(i))]
            /\ pc' = [pc EXCEPT ![T(i)] = "wait_lock"]
            /\ UNCHANGED <<lock_owner, lock_order>>
    /\ UNCHANGED <<channels, data, recv_closed, send_tasks, visited,
                   received, reg_at>>
    /\ UNCHANGED <<cancel_called, woken_by, re_vars>>

\* one pass of `for send_channel in self._channels: await send(payload)`
\* to an endpoint whose receive side is closed: send_nowait raises
\* BrokenResourceError, which leaves trigger() through the lock's __aexit__
DeliverBroken(i, j) ==
    /\ pc[T(i)] = "iterating"
    /\ j \in Remaining(i)
    /\ recv_closed[j]
    /\ pc' = ReleasedPc([pc EXCEPT ![T(i)] = "broken"], EvT(i))
    /\ lock_owner' = ReleasedOwner(EvT(i))
    /\ lock_lot' = ReleasedLot(EvT(i))
    /\ lock_order' = ReleasedOrder(EvT(i))
    /\ visited' = [visited EXCEPT ![i] = {}]
    /\ UNCHANGED <<channels, data, recv_closed, send_tasks, received,
                   reg_at>>
    /\ UNCHANGED <<event_of, cancel_called, woken_by, re_vars>>

\* variant: the endpoint is passed over without the payload being queued
DeliverQueuedDropped(i, j) ==
    /\ pc[T(i)] = "iterating"
    /\ j \in Remaining(i)
    /\ ~recv_closed[j]
    /\ HasRoom(j)
    /\ visited' = [visited EXCEPT ![i] = @ \cup {j}]
    /\ UNCHANGED <<lock_owner, lock_lot, channels, data, recv_closed,
                   send_tasks, pc, received, lock_order, reg_at>>
    /\ UNCHANGED <<event_of, cancel_called, woken_by, re_vars>>

\* one pass of the loop to an open endpoint with room: the payload is queued
DeliverQueued(i, j) ==
    /\ pc[T(i)] = "iterating"
    /\ j \in Remaining(i)
    /\ ~recv_closed[j]
    /\ HasRoom(j)
    /\ data' = [data EXCEPT ![j] = Append(@, i)]
    /\ visited' = [visited EXCEPT ![i] = @ \cup {j}]
    /\ UNCHANGED <<lock_owner, lock_lot, channels, recv_closed, send_tasks,
                   pc, received, lock_order, reg_at>>
    /\ UNCHANGED <<event_of, cancel_called, woken_by, re_vars>>

\* variant: send() on a full queue parks the task with the lock given up
DeliverBlockedUnlocked(i, j) ==
    /\ pc[T(i)] = "iterating"
    /\ j \in Remaining(i)
    /\ ~recv_closed[j]
    /\ ~HasRoom(j)
    /\ send_tasks' = [send_tasks EXCEPT ![j] = Append(@, i)]
    /\ pc' = ReleasedPc([pc EXCEPT ![T(i)] = "blocked"], EvT(i))
    /\ lock_owner' = ReleasedOwner(EvT(i))
    /\ lock_lot' = ReleasedLot(EvT(i))
    /\ lock_order' = ReleasedOrder(EvT(i))
    /\ UNCHANGED <<channels, data, recv_closed, visited, received, reg_at>>
    /\ UNCHANGED <<event_of, cancel_called, woken_by, re_vars>>

\* one pass of the loop to an open endpoint whose queue is full: send()
\* parks the task in send_tasks, the lock still held
DeliverBlocked(i, j) ==
    /\ pc[T(i)] = "iterating"
    /\ j \in Remaining(i)
    /\ ~recv_closed[j]
    /\ ~HasRoom(j)
    /\ send_tasks' = [send_tasks EXCEPT ![j] = Append(@, i)]
    /\ pc' = [pc EXCEPT ![T(i)] = "blocked"]
    /\ UNCHANGED <<lock_owner, lock_lot, channels, data, recv_closed,
                   visited, received, lock_order, reg_at>>
    /\ UNCHANGED <<event_of, cancel_called, woken_by, re_vars>>

\* the loop is exhausted: the lock is released and trigger() returns
TriggerReturn(i) ==
    /\ pc[T(i)] = "iterating"
    /\ Remaining(i) = {}
    /\ pc' = ReleasedPc([pc EXCEPT ![T(i)] = "returned"], EvT(i))
    /\ lock_owner' = ReleasedOwner(EvT(i))
    /\ lock_lot' = ReleasedLot(EvT(i))
    /\ lock_order' = ReleasedOrder(EvT(i))
    /\ visited' = [visited EXCEPT ![i] = {}]
    /\ UNCHANGED <<channels, data, recv_closed, send_tasks, received,
                   reg_at>>
    /\ UNCHANGED <<event_of, cancel_called, woken_by, re_vars>>

\* variant: the exception leaves trigger() with the lock still owned
TriggerRaiseNoRelease(i) ==
    /\ pc[T(i)] \in {"woken_broken", "woken_cancelled"}
    /\ pc' = [pc EXCEPT ![T(i)] =
                IF pc[T(i)] = "woken_broken" THEN "broken" ELSE "cancelled"]
    /\ visited' = [visited EXCEPT ![i] = {}]
    /\ woken_by' = [woken_by EXCEPT ![i] = 0]
    /\ UNCHANGED <<lock_owner, lock_lot, lock_order, channels, data,
                   recv_closed, send_tasks, received, reg_at>>
    /\ UNCHANGED <<event_of, cancel_called, re_vars>>

\* a task rescheduled with an error out of its parked send() runs again:
\* the error leaves trigger() through the lock's __aexit__
TriggerRaise(i) ==
    /\ pc[T(i)] \in {"woken_broken", "woken_cancelled"}
    /\ pc' = ReleasedPc([pc EXCEPT ![T(i)] =
                IF pc[T(i)] = "woken_broken" THEN "broken" ELSE "cancelled"], EvT(i))
    /\ lock_owner' = ReleasedOwner(EvT(i))
    /\ lock_lot' = ReleasedLot(EvT(i))
    /\ lock_order' = ReleasedOrder(EvT(i))
    /\ visited' = [visited EXCEPT ![i] = {}]
    /\ woken_by' = [woken_by EXCEPT ![i] = 0]
    /\ UNCHANGED <<channels, data, recv_closed, send_tasks, received,
                   reg_at>>
    /\ UNCHANGED <<event_of, cancel_called, re_vars>>

\* the task running trigger() is cancelled while parked in Lock.acquire()
CancelTriggerWaiting(i) ==
    /\ MayCancel
    /\ pc[T(i)] = "wait_lock"
    /\ lock_lot' = RemoveFromLot(T(i), EvT(i))
    /\ pc' = [pc EXCEPT ![T(i)] = "cancelled"]
    /\ UNCHANGED <<lock_owner, channels, data, recv_closed, send_tasks,
                   visited, received, lock_order, reg_at>>
    /\ UNCHANGED <<event_of, cancel_called, woken_by, re_vars>>

\* variant: the cancelled send() also takes the payload back out of the
\* queues the call had reached
CancelTriggerBlockedRollback(i) ==
    /\ MayCancel
    /\ pc[T(i)] = "blocked"
    /\ send_tasks' = [j \in SubIds |->
                        SelectSeq(send_tasks[j], LAMBDA x : x # i)]
    /\ data' = [j \in SubIds |-> SelectSeq(data[j], LAMBDA x : x # i)]
    /\ pc' = [pc EXCEPT ![T(i)] = "woken_cancelled"]
    /\ UNCHANGED <<lock_owner, lock_lot, channels, recv_closed,
                   visited, received, lock_order, reg_at>>
    /\ UNCHANGED <<event_of, cancel_called, woken_by, re_vars>>

\* the task running trigger() is cancelled while parked in send(): it
\* leaves send_tasks and is rescheduled with Cancelled
CancelTriggerBlocked(i) ==
    /\ MayCancel
    /\ pc[T(i)] = "blocked"
    /\ send_tasks' = [j \in SubIds |->
                        SelectSeq(send_tasks[j], LAMBDA x : x # i)]
    /\ pc' = [pc EXCEPT ![T(i)] = "woken_cancelled"]
    /\ UNCHANGED <<lock_owner, lock_lot, channels, data, recv_closed,
                   visited, received, lock_order, reg_at>>
    /\ UNCHANGED <<event_of, cancel_called, woken_by, re_vars>>

\* the task running trigger() is cancelled between two sends: the next
\* send()'s checkpoint_if_cancelled raises Cancelled
CancelTriggerIterating(i) ==
    /\ MayCancel
    /\ pc[T(i)] = "iterating"
    /\ Remaining(i) # {}
    /\ pc' = ReleasedPc([pc EXCEPT ![T(i)] = "cancelled"], EvT(i))
    /\ lock_owner' = ReleasedOwner(EvT(i))
    /\ lock_lot' = ReleasedLot(EvT(i))
    /\ lock_order' = ReleasedOrder(EvT(i))
    /\ visited' = [visited EXCEPT ![i] = {}]
    /\ UNCHANGED <<channels, data, recv_closed, send_tasks, received,
                   reg_at>>
    /\ UNCHANGED <<event_of, cancel_called, woken_by, re_vars>>

(* -------------------------- Event.subscribe --------------------------- *)
\* subscribe(): open_memory_channel, then `async with self._lock` either
\* takes the free lock or parks
Subscribe(j, e) ==
    /\ pc[S(j)] = "idle"
    /\ StartsInOrder("subscribe", j)
    /\ event_of' = [event_of EXCEPT ![S(j)] = e]
    /\ IF LockFree(e)
       THEN /\ lock_owner' = [lock_owner EXCEPT ![e] = S(j)]
            /\ pc' = [pc EXCEPT ![S(j)] = "sub_locked"]
            /\ UNCHANGED lock_lot
       ELSE /\ lock_lot' = [lock_lot EXCEPT ![e] = Append(@, S(j))]
            /\ pc' = [pc EXCEPT ![S(j)] = "sub_wait"]
            /\ UNCHANGED lock_owner
    /\ UNCHANGED <<channels, data, recv_closed, send_tasks, visited,
                   received, lock_order, reg_at>>
    /\ UNCHANGED <<cancel_called, woken_by, re_vars>>

\* self._channels.add(send_channel), lock released, receive handle yielded
SubscribeAdd(j) ==
    /\ pc[S(j)] = "sub_locked"
    /\ channels' = [channels EXCEPT ![EvS(j)] = @ \cup {j}]
    /\ reg_at' = [reg_at EXCEPT ![j] = Len(lock_order[EvS(j)])]
    /\ pc' = ReleasedPc([pc EXCEPT ![S(j)] = "open"], EvS(j))
    /\ lock_owner' = ReleasedOwner(EvS(j))
    /\ lock_lot' = ReleasedLot(EvS(j))
    /\ lock_order' = ReleasedOrder(EvS(j))
    /\ UNCHANGED <<data, recv_closed, send_tasks, visited, received>>
    /\ UNCHANGED <<event_of, cancel_called, woken_by, re_vars>>

\* variant: receive() takes the head of the queue and leaves a parked
\* sender parked
ReceiveNoWake(j) ==
    /\ pc[S(j)] = "open"
    /\ data[j] # <<>>
    /\ received' = [received EXCEPT ![j] = Append(@, Head(data[j]))]
    /\ data' = [data EXCEPT ![j] = Tail(@)]
    /\ UNCHANGED <<lock_owner, lock_lot, channels, recv_closed, send_tasks,
                   visited, pc, lock_order, reg_at>>
    /\ UNCHANGED <<event_of, cancel_called, woken_by, re_vars>>

\* the consumer's receive() on a non-empty queue: a parked sender's payload
\* is moved into the queue and the sender rescheduled, then the head is
\* returned
Receive(j) ==
    /\ pc[S(j)] = "open"
    /\ data[j] # <<>>
    /\ received' = [received EXCEPT ![j] = Append(@, Head(data[j]))]
    /\ IF send_tasks[j] # <<>>
       THEN /\ data' = [data EXCEPT ![j] = Append(Tail(@), Head(send_tasks[j]))]
            /\ send_tasks' = [send_tasks EXCEPT ![j] = Tail(@)]
            /\ visited' = [visited EXCEPT ![Head(send_tasks[j])] = @ \cup {j}]
            /\ pc' = [pc EXCEPT ![T(Head(send_tasks[j]))] = "iterating"]
       ELSE /\ data' = [data EXCEPT ![j] = Tail(@)]
            /\ UNCHANGED <<send_tasks, visited, pc>>
    /\ UNCHANGED <<lock_owner, lock_lot, channels, recv_closed, lock_order,
                   reg_at>>
    /\ UNCHANGED <<event_of, cancel_called, woken_by, re_vars>>

\* variant: closing the handle leaves the parked senders parked
ScopeExitNoWake(j) ==
    /\ pc[S(j)] = "open"
    /\ recv_closed' = [recv_closed EXCEPT ![j] = TRUE]
    /\ data' = [data EXCEPT ![j] = <<>>]
    /\ pc' = [pc EXCEPT ![S(j)] = "closed"]
    /\ received' = [received EXCEPT ![j] = <<>>]
    /\ UNCHANGED <<lock_owner, lock_lot, channels, send_tasks, visited,
                   lock_order, reg_at>>
    /\ UNCHANGED <<event_of, cancel_called, woken_by, re_vars>>

\* the consumer leaves the scope, normally or by an error of its own:
\* `async with receive_channel` closes the handle (queue cleared, parked
\* senders rescheduled with BrokenResourceError) and checkpoints
ScopeExit(j) ==
    /\ pc[S(j)] = "open"
    /\ recv_closed' = [recv_closed EXCEPT ![j] = TRUE]
    /\ data' = [data EXCEPT ![j] = <<>>]
    /\ send_tasks' = [send_tasks EXCEPT ![j] = <<>>]
    /\ pc' = [WokenBroken(pc, j) EXCEPT ![S(j)] = "closed"]
    /\ woken_by' = WokenBy(j)
    /\ received' = [received EXCEPT ![j] = <<>>]
    /\ UNCHANGED <<lock_owner, lock_lot, channels, visited, lock_order,
                   reg_at>>
    /\ UNCHANGED <<event_of, cancel_called, re_vars>>

\* variant: the finally block enters its critical section without the lock
UnsubAcquireNoLock(j) ==
    /\ pc[S(j)] = "closed"
    /\ j \notin cancel_called
    /\ pc' = [pc EXCEPT ![S(j)] = "unsub_locked"]
    /\ UNCHANGED <<lock_owner, lock_lot, channels, data, recv_closed,
                   send_tasks, visited, received, lock_order, reg_at>>
    /\ UNCHANGED <<event_of, cancel_called, woken_by, re_vars>>

\* finally: `async with self._lock` either takes the free lock or parks;
\* a cancelled task gets Cancelled from acquire() instead
UnsubAcquire(j) ==
    /\ pc[S(j)] = "closed"
    /\ j \notin cancel_called
    /\ IF LockFree(EvS(j))
       THEN /\ lock_owner' = [lock_owner EXCEPT ![EvS(j)] = S(j)]
            /\ pc' = [pc EXCEPT ![S(j)] = "unsub_locked"]
            /\ UNCHANGED lock_lot
       ELSE /\ lock_lot' = [lock_lot EXCEPT ![EvS(j)] = Append(@, S(j))]
            /\ pc' = [pc EXCEPT ![S(j)] = "unsub_wait"]
            /\ UNCHANGED lock_owner
    /\ UNCHANGED <<channels, data, recv_closed, send_tasks, visited,
                   received, lock_order, reg_at>>
    /\ UNCHANGED <<event_of, cancel_called, woken_by, re_vars>>

\* self._channels.remove(send_channel), lock released, subscribe() is over
UnsubRemove(j) ==
    /\ pc[S(j)] = "unsub_locked"
    /\ channels' = [channels EXCEPT ![EvS(j)] = @ \ {j}]
    /\ reg_at' = [reg_at EXCEPT ![j] = -1]
    /\ pc' = ReleasedPc([pc EXCEPT ![S(j)] = "exited"], EvS(j))
    /\ lock_owner' = ReleasedOwner(EvS(j))
    /\ lock_lot' = ReleasedLot(EvS(j))
    /\ lock_order' = ReleasedOrder(EvS(j))
    /\ UNCHANGED <<data, recv_closed, send_tasks, visited, received>>
    /\ UNCHANGED <<event_of, cancel_called, woken_by, re_vars>>

\* the subscribing task is cancelled while parked in the first
\* Lock.acquire(): Cancelled leaves subscribe() before the try block
CancelSubWaiting(j) ==
    /\ MayCancel
    /\ pc[S(j)] = "sub_wait"
    /\ lock_lot' = RemoveFromLot(S(j), EvS(j))
    /\ pc' = [pc EXCEPT ![S(j)] = "aborted"]
    /\ UNCHANGED <<lock_owner, channels, data, recv_closed, send_tasks,
                   visited, received, lock_order, reg_at>>
    /\ UNCHANGED <<event_of, cancel_called, woken_by, re_vars>>

\* the consuming task is cancelled inside the scope: Cancelled is thrown in
\* at the yield, `async with receive_channel` closes the handle and the
\* task yields at aclose()'s checkpoint, still inside subscribe()
CancelSubOpen(j) ==
    /\ MayCancel
    /\ pc[S(j)] = "open"
    /\ recv_closed' = [recv_closed EXCEPT ![j] = TRUE]
    /\ data' = [data EXCEPT ![j] = <<>>]
    /\ send_tasks' = [send_tasks EXCEPT ![j] = <<>>]
    /\ pc' = [WokenBroken(pc, j) EXCEPT ![S(j)] = "closed"]
    /\ woken_by' = WokenBy(j)
    /\ cancel_called' = cancel_called \cup {j}
    /\ received' = [received EXCEPT ![j] = <<>>]
    /\ UNCHANGED <<lock_owner, lock_lot, channels, visited, lock_order,
                   reg_at>>
    /\ UNCHANGED <<event_of, re_vars>>

\* Cancelled leaves subscribe() without the remove: the task was cancelled
\* inside the scope and runs again after aclose()'s checkpoint (Cancelled
\* there, and again from the finally block's Lock.acquire()), or it is
\* cancelled now, at that checkpoint or parked in that Lock.acquire()
CancelSubClosing(j) ==
    /\ j \in cancel_called \/ MayCancel
    /\ pc[S(j)] \in {"closed", "unsub_wait"}
    /\ lock_lot' = RemoveFromLot(S(j), EvS(j))
    /\ pc' = [pc EXCEPT ![S(j)] = "cancelled"]
    /\ cancel_called' = cancel_called \ {j}
    /\ UNCHANGED <<lock_owner, channels, data, recv_closed, send_tasks,
                   visited, received, lock_order, reg_at>>
    /\ UNCHANGED <<event_of, woken_by, re_vars>>

(* ------------------------------- Next --------------------------------- *)
\* one Event, its calls running in tasks that may be cancelled
Next ==
    \/ \E i \in SoloTriggerIds : TriggerCall(i, MainEvent)
    \/ \E i \in TriggerIds, j \in SubIds : DeliverBroken(i, j)
    \/ \E i \in TriggerIds, j \in SubIds : DeliverQueued(i, j)
    \/ \E i \in TriggerIds, j \in SubIds : DeliverBlocked(i, j)
    \/ \E i \in TriggerIds : TriggerReturn(i)
    \/ \E i \in TriggerIds : TriggerRaise(i)
    \/ \E i \in TriggerIds : CancelTriggerWaiting(i)
    \/ \E i \in TriggerIds : CancelTriggerBlocked(i)
    \/ \E i \in TriggerIds : CancelTriggerIterating(i)
    \/ \E j \in SubIds : Subscribe(j, MainEvent)
    \/ \E j \in SubIds : SubscribeAdd(j)
    \/ \E j \in SubIds : Receive(j)
    \/ \E j \in SubIds : ScopeExit(j)
    \/ \E j \in SubIds : UnsubAcquire(j)
    \/ \E j \in SubIds : UnsubRemove(j)
    \/ \E j \in SubIds : CancelSubWaiting(j)
    \/ \E j \in SubIds : CancelSubOpen(j)
    \/ \E j \in SubIds : CancelSubClosing(j)

Spec == Init /\ [][Next]_vars

\* two Events used side by side, no task cancelled, one more trigger() call;
\* the traffic is on MainEvent, the first subscription and the last trigger()
\* call go to either event
NextEvents ==
    \/ \E i \in TriggerIds, e \in EventNames :
          (i = MaxTriggers \/ e = MainEvent) /\ TriggerCall(i, e)
    \/ \E i \in TriggerIds, j \in SubIds : DeliverBroken(i, j)
    \/ \E i \in TriggerIds, j \in SubIds : DeliverQueued(i, j)
    \/ \E i \in TriggerIds, j \in SubIds : DeliverBlocked(i, j)
    \/ \E i \in TriggerIds : TriggerReturn(i)
    \/ \E i \in TriggerIds : TriggerRaise(i)
    \/ \E j \in SubIds, e \in EventNames :
          (j = 1 \/ e = MainEvent) /\ Subscribe(j, e)
    \/ \E j \in SubIds : SubscribeAdd(j)
    \/ \E j \in SubIds : Receive(j)
    \/ \E j \in SubIds : ScopeExit(j)
    \/ \E j \in SubIds : UnsubAcquire(j)
    \/ \E j \in SubIds : UnsubRemove(j)

SpecEvents == Init /\ [][NextEvents]_vars

\* a step of a task that is runnable: it holds the lock and is not parked
\* in send(), or it is past aclose() in the finally block of subscribe()
TaskStep ==
    \/ \E i \in TriggerIds, j \in SubIds : DeliverBroken(i, j)
    \/ \E i \in TriggerIds, j \in SubIds : DeliverQueued(i, j)
    \/ \E i \in TriggerIds, j \in SubIds : DeliverBlocked(i, j)
    \/ \E i \in TriggerIds : TriggerReturn(i)
    \/ \E i \in TriggerIds : TriggerRaise(i)
    \/ \E j \in SubIds : SubscribeAdd(j)
    \/ \E j \in SubIds : UnsubAcquire(j)
    \/ \E j \in SubIds : UnsubRemove(j)

\* one Event, every subscribe() called before the first trigger(), no task
\* cancelled
NextFair ==
    \/ \E i \in TriggerIds :
          (\A j \in SubIds : pc[S(j)] # "idle") /\ TriggerCall(i, MainEvent)
    \/ \E i \in TriggerIds, j \in SubIds : DeliverBroken(i, j)
    \/ \E i \in TriggerIds, j \in SubIds : DeliverQueued(i, j)
    \/ \E i \in TriggerIds, j \in SubIds : DeliverBlocked(i, j)
    \/ \E i \in TriggerIds : TriggerReturn(i)
    \/ \E i \in TriggerIds : TriggerRaise(i)
    \/ \E j \in SubIds : Subscribe(j, MainEvent)
    \/ \E j \in SubIds : SubscribeAdd(j)
    \/ \E j \in SubIds : Receive(j)
    \/ \E j \in SubIds : ScopeExit(j)
    \/ \E j \in SubIds : UnsubAcquire(j)
    \/ \E j \in SubIds : UnsubRemove(j)

\* the trio scheduler runs every runnable task; whether a consumer calls
\* receive() or leaves its scope is up to it
SpecFair == Init /\ [][NextFair]_vars /\ WF_vars(TaskStep)

TypeOK ==
    /\ \A e \in EventNames : lock_owner[e] \in Tasks \cup {None}
    /\ \A e \in EventNames : channels[e] \subseteq SubIds
    /\ \A j \in SubIds : Len(data[j]) <= Capacity
    /\ cancel_called \subseteq SubIds
    /\ \A i \in TriggerIds : woken_by[i] \in SubIds \cup {0}

(* ---------------------------- ReAwaitable ----------------------------- *)
\* variant: is_done that turns true only when the wrapped coroutine is over
is_done_when_finished == coro = "finished"

\* ReAwaitable.is_done: hasattr(self, '_result')
is_done == has_result

\* ReAwaitable(awaitable): the wrapped coroutine passes through 0 to
\* MaxSuspends checkpoints and ends with a value or with a failure
InitRe ==
    /\ event_of = [t \in Tasks |-> "none"]
    /\ lock_owner = [e \in EventNames |-> None]
    /\ lock_lot = [e \in EventNames |-> <<>>]
    /\ channels = [e \in EventNames |-> {}]
    /\ data = [j \in SubIds |-> <<>>]
    /\ recv_closed = [j \in SubIds |-> FALSE]
    /\ send_tasks = [j \in SubIds |-> <<>>]
    /\ pc = [t \in Tasks |-> "idle"]
    /\ visited = [i \in TriggerIds |-> {}]
    /\ received = [j \in SubIds |-> <<>>]
    /\ lock_order = [e \in EventNames |-> <<>>]
    /\ cancel_called = {}
    /\ woken_by = [i \in TriggerIds |-> 0]
    /\ reg_at = [j \in SubIds |-> -1]
    /\ has_result = FALSE
    /\ coro = "created"
    /\ susp_left \in 0..MaxSuspends
    /\ result \in {"value", "failure"}
    /\ await_calls = 0
    /\ effects = 0
    /\ apc = [a \in Awaiters |-> "idle"]
    /\ awaited = [a \in Awaiters |-> 0]
    /\ began = [a \in Awaiters |-> "none"]
    /\ out = [a \in Awaiters |-> "none"]

\* task a is not inside an await and has awaits left to make
CanAwait(a) == apc[a] \in {"idle", "done"} /\ awaited[a] < MaxAwaits

\* `await re` by task a: __await__ stores self._awaitable.__await__() in
\* _result unless is_done, and returns _result; the task then advances that
\* iterator with send(None).  Here the wrapped coroutine has not started:
\* its body begins and runs to its first checkpoint or to its end.
AwaitFresh(a) ==
    /\ CanAwait(a)
    /\ coro = "created"
    /\ IF is_done
       THEN UNCHANGED <<has_result, await_calls>>
       ELSE has_result' = TRUE /\ await_calls' = await_calls + 1
    /\ effects' = effects + 1
    /\ awaited' = [awaited EXCEPT ![a] = @ + 1]
    /\ began' = [began EXCEPT ![a] = "created"]
    /\ IF susp_left > 0
       THEN /\ coro' = "suspended"
            /\ susp_left' = susp_left - 1
            /\ apc' = [apc EXCEPT ![a] = "parked"]
            /\ UNCHANGED out
       ELSE /\ coro' = "finished"
            /\ apc' = [apc EXCEPT ![a] = "done"]
            /\ out' = [out EXCEPT ![a] = result]
            /\ UNCHANGED susp_left
    /\ UNCHANGED <<result, event_vars>>

\* `await re` by task a while the wrapped coroutine is suspended at a
\* checkpoint on behalf of another task: send(None) resumes it there, the
\* trap's `.unwrap()` on None raises AttributeError, which ends the
\* coroutine and is what the await gives a
AwaitInFlight(a) ==
    /\ CanAwait(a)
    /\ coro = "suspended"
    /\ IF is_done
       THEN UNCHANGED <<has_result, await_calls>>
       ELSE has_result' = TRUE /\ await_calls' = await_calls + 1
    /\ coro' = "finished"
    /\ apc' = [apc EXCEPT ![a] = "done"]
    /\ out' = [out EXCEPT ![a] = "AttributeError"]
    /\ awaited' = [awaited EXCEPT ![a] = @ + 1]
    /\ began' = [began EXCEPT ![a] = "suspended"]
    /\ UNCHANGED <<susp_left, result, effects, event_vars>>

\* `await re` by task a after the wrapped coroutine is over: send(None) on
\* it raises RuntimeError (cannot reuse already awaited coroutine)
AwaitFinished(a) ==
    /\ CanAwait(a)
    /\ coro = "finished"
    /\ IF is_done
       THEN UNCHANGED <<has_result, await_calls>>
       ELSE has_result' = TRUE /\ await_calls' = await_calls + 1
    /\ apc' = [apc EXCEPT ![a] = "done"]
    /\ out' = [out EXCEPT ![a] = "RuntimeError"]
    /\ awaited' = [awaited EXCEPT ![a] = @ + 1]
    /\ began' = [began EXCEPT ![a] = "finished"]
    /\ UNCHANGED <<coro, susp_left, result, effects, event_vars>>

\* the scheduler resumes task a, parked at a checkpoint of the wrapped
\* coroutine: the coroutine runs to its next checkpoint or to its end; if
\* another task has ended the coroutine meanwhile, send() raises RuntimeError
Resume(a) ==
    /\ apc[a] = "parked"
    /\ IF coro = "suspended"
       THEN IF susp_left > 0
            THEN /\ susp_left' = susp_left - 1
                 /\ UNCHANGED <<coro, apc, out>>
            ELSE /\ coro' = "finished"
                 /\ apc' = [apc EXCEPT ![a] = "done"]
                 /\ out' = [out EXCEPT ![a] = result]
                 /\ UNCHANGED susp_left
       ELSE /\ apc' = [apc EXCEPT ![a] = "done"]
            /\ out' = [out EXCEPT ![a] = "RuntimeError"]
            /\ UNCHANGED <<coro, susp_left>>
    /\ UNCHANGED <<has_result, result, await_calls, effects, awaited,
                   began, event_vars>>

NextRe ==
    \/ \E a \in Awaiters : AwaitFresh(a)
    \/ \E a \in Awaiters : AwaitInFlight(a)
    \/ \E a \in Awaiters : AwaitFinished(a)
    \/ \E a \in Awaiters : Resume(a)

SpecRe == InitRe /\ [][NextRe]_vars

(* ----------------------- vocabulary of the claims --------------------- *)
RECURSIVE IsSubSeq(_, _)
\* a can be obtained from b by deleting elements
IsSubSeq(a, b) ==
    IF a = <<>> THEN TRUE
    ELSE IF b = <<>> THEN FALSE
    ELSE IF Head(a) = Head(b) THEN IsSubSeq(Tail(a), Tail(b))
    ELSE IsSubSeq(a, Tail(b))

Elems(q) == {q[k] : k \in 1..Len(q)}

\* every payload that entered the queue of j and was not thrown away by
\* close(): those handed to the consumer, then those still queued
Got(j) == received[j] \o data[j]

\* position of trigger call i in the lock acquisition order, 0 before
Pos(i) ==
    IF EvT(i) \in EventNames /\ i \in Elems(lock_order[EvT(i)])
    THEN CHOOSE k \in 1..Len(lock_order[EvT(i)]) : lock_order[EvT(i)][k] = i
    ELSE 0

\* the trigger calls that took the lock since j was added, in lock order
WindowSeq(j) ==
    IF reg_at[j] < 0 THEN <<>>
    ELSE SubSeq(lock_order[EvS(j)], reg_at[j] + 1, Len(lock_order[EvS(j)]))

\* the trigger calls that took the lock of the Event j subscribed to
OrderSeen(j) == IF EvS(j) \in EventNames THEN lock_order[EvS(j)] ELSE <<>>

\* j's send endpoint is in some Event's subscriber set
Registered(j) == \E e \in EventNames : j \in channels[e]

BlockedOn(i, j) == pc[T(i)] = "blocked" /\ i \in Elems(send_tasks[j])

\* tasks inside a region guarded by `async with self._lock` of Event e
InRegion(e) ==
    {t \in Tasks : /\ event_of[t] = e
                   /\ pc[t] \in {"iterating", "blocked", "woken_broken",
                                 "woken_cancelled", "sub_locked",
                                 "unsub_locked"}}

\* no subscriber has closed its handle or been cancelled
NoneClosed ==
    \A j \in SubIds : pc[S(j)] \in {"idle", "sub_wait", "sub_locked", "open"}

(* ------------------------------ claims -------------------------------- *)
\* C1: while no subscriber closes or is cancelled, what a registered
\* subscriber obtained is, in lock order and without duplicates, a part of
\* the calls triggered since its registration, and contains every such call
\* that returned: once they all returned it is exactly the triggered
\* sequence.
C1_NoLossBroadcast ==
    NoneClosed =>
        \A j \in SubIds : pc[S(j)] = "open" =>
            /\ IsSubSeq(Got(j), WindowSeq(j))
            /\ IsSubSeq(SelectSeq(WindowSeq(j),
                                  LAMBDA i : pc[T(i)] = "returned"), Got(j))
            /\ \A i \in Elems(WindowSeq(j)) : pc[T(i)] # "broken"

\* every call returned and both consumers were handed the whole sequence
C1_Witness ==
    /\ NoneClosed
    /\ \A i \in SoloTriggerIds : pc[T(i)] = "returned"
    /\ \A j \in SubIds :
          pc[S(j)] = "open" /\ received[j] = lock_order[MainEvent]
    /\ Len(lock_order[MainEvent]) = Capacity + 1

\* C2: a subscriber's queue holds only payloads of calls that took the lock
\* after its endpoint was added, nothing is queued or parked on it once its
\* handle is closed, and a subscriber that stays registered has every
\* payload triggered inside its window once that call is over (cancelled
\* calls apart).
C2_RegistrationWindow ==
    \A j \in SubIds :
        /\ Elems(Got(j)) \cup Elems(send_tasks[j]) \subseteq Elems(WindowSeq(j))
        /\ recv_closed[j] => data[j] = <<>> /\ send_tasks[j] = <<>>
        /\ pc[S(j)] = "open" =>
              \A i \in Elems(WindowSeq(j)) :
                  pc[T(i)] \in {"returned", "broken"} => i \in Elems(Got(j))

\* the first half of C2 alone: no payload from outside the window
C2_OnlyWindowPayloads ==
    \A j \in SubIds :
        /\ Elems(Got(j)) \cup Elems(send_tasks[j]) \subseteq Elems(WindowSeq(j))
        /\ recv_closed[j] => data[j] = <<>> /\ send_tasks[j] = <<>>

\* C3: once every subscribe() scope that was entered has been left, on
\* whatever path, the subscriber set is empty.
C3_UnsubscribeLeakFree ==
    (\A j \in SubIds : pc[S(j)] \in {"idle", "aborted", "exited", "cancelled"})
        => \A e \in EventNames : channels[e] = {}

\* C4: a trigger() call that met a closed handle has still queued its
\* payload for every subscriber registered before the call took the lock
\* whose handle is open.
C4_DeadSubscriberDoesNotPoison ==
    \A i \in TriggerIds : pc[T(i)] = "broken" =>
        \A j \in channels[EvT(i)] :
            (~recv_closed[j] /\ reg_at[j] < Pos(i)) => i \in Elems(Got(j))

\* C5: no trigger() call ends with the BrokenResourceError of a closed
\* subscriber handle.
C5_TriggerNeverRaises ==
    \A i \in TriggerIds : pc[T(i)] \notin {"woken_broken", "broken"}

\* C6: a trigger() call is parked on a subscriber only when that queue
\* holds Capacity payloads, its own payload not among them; while the
\* subscriber keeps its handle open and the call is not cancelled, the call
\* leaves the parked state only by the subscriber taking one payload, and
\* then its payload is in the queue and the call goes on.
C6_Backpressure ==
    /\ [](\A i \in TriggerIds, j \in SubIds : BlockedOn(i, j) =>
            /\ Len(data[j]) = Capacity
            /\ ~recv_closed[j]
            /\ i \notin Elems(Got(j)))
    /\ [][\A i \in TriggerIds, j \in SubIds :
            (/\ BlockedOn(i, j)
             /\ pc'[T(i)] # "blocked"
             /\ pc'[S(j)] = "open"
             /\ pc'[T(i)] # "woken_cancelled")
            => /\ received'[j] = Append(received[j], Head(data[j]))
               /\ i \in Elems(data'[j])
               /\ pc'[T(i)] = "iterating"
               /\ j \in visited'[i]]_vars

\* the first Capacity calls returned, the next one is parked on the queue
\* of a subscriber that has received nothing
C6_Witness ==
    /\ \A i \in 1..Capacity : pc[T(i)] = "returned"
    /\ BlockedOn(Capacity + 1, 1)
    /\ received[1] = <<>>
    /\ pc[S(1)] = "open"

\* C7: the payloads any subscriber obtained are in the order in which their
\* trigger() calls took the lock, so two subscribers never see two payloads
\* in different orders.
C7_SingleGlobalOrder ==
    \A j \in SubIds :
        /\ IsSubSeq(Got(j), OrderSeen(j))
        /\ \A k \in SubIds \ {j}, a \in 1..Len(Got(j)), b \in 1..Len(Got(j)) :
              (a < b /\ Got(j)[a] \in Elems(Got(k)) /\ Got(j)[b] \in Elems(Got(k)))
              => \E c \in 1..Len(Got(k)), d \in 1..Len(Got(k)) :
                    c < d /\ Got(k)[c] = Got(j)[a] /\ Got(k)[d] = Got(j)[b]

\* a second call is parked in Lock.acquire() while the first is halfway
\* through its delivery loop: one subscriber has its payload, the other
\* not yet
C7_Witness ==
    /\ pc[T(1)] = "iterating"
    /\ pc[T(2)] = "wait_lock"
    /\ channels[MainEvent] = {1, 2}
    /\ 1 \in Elems(Got(1))
    /\ 1 \notin Elems(Got(2))

\* C8: at most one task is inside a locked region, it is the lock's owner,
\* and the subscriber set does not change while a trigger() call stays
\* inside its locked region.
C8_MutualExclusion ==
    /\ [](\A e \in EventNames :
            Cardinality(InRegion(e)) <= 1 /\ InRegion(e) \subseteq {lock_owner[e]})
    /\ [][\A e \in EventNames, i \in TriggerIds :
            (T(i) \in InRegion(e) /\ T(i) \in InRegion(e)')
                => channels'[e] = channels[e]]_vars

\* a trigger() call is parked on a full queue, the lock held, while a
\* subscribe() waits for the lock
C8_Witness ==
    /\ \E i \in TriggerIds : pc[T(i)] = "blocked"
    /\ \E j \in SubIds : pc[S(j)] = "sub_wait"

\* C9: an endpoint is in the subscriber set exactly while its subscription
\* is open, and the set holds no endpoint whose receive handle is closed.
C9_SubscriberSetInvariant ==
    \A j \in SubIds :
        /\ Registered(j) <=> pc[S(j)] = "open"
        /\ Registered(j) => ~recv_closed[j]

\* a trigger() call is parked in send() on a full queue or was woken there
\* and has not left its locked region yet
Stalled(i) == pc[T(i)] \in {"blocked", "woken_broken", "woken_cancelled"}

\* how many times payload x is in queue q
Count(q, x) == Len(SelectSeq(q, LAMBDA y : y = x))

\* subscriber j, not cancelled, has closed its handle while a trigger()
\* call was parked on its full queue, and that call has not yet left
\* trigger()
LeftStalledPublisher(j) ==
    /\ pc[S(j)] = "closed"
    /\ j \notin cancel_called
    /\ \E i \in TriggerIds :
          \/ pc[T(i)] = "woken_broken" /\ woken_by[i] = j
          \/ BlockedOn(i, j)

\* a trigger() call on j's Event is parked on the full queue of another
\* subscriber
StalledElsewhere(j) ==
    \E i \in TriggerIds, k \in SubIds \ {j} :
        EvT(i) = EvS(j) /\ BlockedOn(i, k)

\* trigger() call i has returned and every subscriber registered before it
\* took the lock has its payload
Completed(i) ==
    /\ pc[T(i)] = "returned"
    /\ \A j \in channels[EvT(i)] : reg_at[j] < Pos(i) => i \in Elems(Got(j))

\* C10: over all awaits of one ReAwaitable by all tasks, the wrapped
\* awaitable's __await__ is invoked at most once and the body of the wrapped
\* coroutine is started at most once.
C10_AtMostOnce == await_calls <= 1 /\ effects <= 1

\* every task has awaited, one of them while the coroutine was in flight,
\* and the computation was started once
C10_Witness ==
    /\ \A a \in Awaiters : apc[a] = "done"
    /\ \E a \in Awaiters : out[a] = "AttributeError"
    /\ await_calls = 1
    /\ effects = 1
\* C11: a task whose await began while the wrapped coroutine was suspended
\* on behalf of another task ends its await with the outcome of the wrapped
\* computation, and so does the task that started the coroutine: the second
\* await neither fails nor disturbs the execution in flight.
C11_JoinInFlight ==
    \A a \in Awaiters :
        (apc[a] = "done" /\ began[a] \in {"created", "suspended"})
            => out[a] = result

\* C12: an await that began after the wrapped coroutine completed with a
\* value gives that value again.
C12_ReplayAfterCompletion ==
    \A a \in Awaiters :
        (apc[a] = "done" /\ began[a] = "finished" /\ result = "value"
            /\ \E b \in Awaiters : out[b] = "value")
            => out[a] = "value"

\* C13: is_done is true exactly when the wrapped coroutine has been driven
\* to completion; it is false before any await and while it is in flight.
C13_IsDoneIffCompleted == is_done <=> coro = "finished"

\* C14: when the wrapped computation fails with f, every await that has
\* ended, whenever it began, has given f.
C14_FailureMemoized ==
    \A a \in Awaiters :
        (apc[a] = "done" /\ result = "failure"
            /\ \E b \in Awaiters : out[b] = "failure")
            => out[a] = "failure"


\* C15: in a step taken while a trigger() call is stalled on a full
\* subscriber queue, the subscriber set of its Event does not change (no
\* registration and no removal completes) and no queue of that Event gains
\* a payload other than the stalled call's own.
C15_LockHeldAcrossSuspension ==
    [][\A i \in TriggerIds : Stalled(i) =>
          /\ channels'[EvT(i)] = channels[EvT(i)]
          /\ \A j \in SubIds : EvS(j) = EvT(i) =>
                Elems(data'[j]) \ Elems(data[j]) \subseteq {i}]_vars

\* a trigger() call is parked on a full queue while another trigger() and a
\* registration or removal on the same Event wait for the lock
C15_Witness ==
    \E i \in TriggerIds, k \in TriggerIds, j \in SubIds :
        /\ pc[T(i)] = "blocked"
        /\ pc[T(k)] = "wait_lock" /\ EvT(k) = EvT(i)
        /\ pc[S(j)] \in {"sub_wait", "unsub_wait"} /\ EvS(j) = EvT(i)

\* C16: when a trigger() call is cancelled while parked on a full queue,
\* every subscriber the call had reached (and whose handle is open) holds
\* the payload once, no other subscriber holds it, and neither the
\* cancellation nor anything after it changes how often a queue with an
\* open handle holds that payload.
C16_PartialDeliveryOnCancel ==
    /\ [](\A i \in TriggerIds, j \in SubIds :
            (pc[T(i)] = "woken_cancelled" /\ ~recv_closed[j]) =>
                Count(Got(j), i) = IF j \in visited[i] THEN 1 ELSE 0)
    /\ [][\A i \in TriggerIds, j \in SubIds :
            (/\ \/ pc[T(i)] = "blocked" /\ pc'[T(i)] = "woken_cancelled"
                \/ pc[T(i)] \in {"woken_cancelled", "cancelled"}
             /\ ~recv_closed'[j])
            => Count(received'[j] \o data'[j], i) = Count(Got(j), i)]_vars

\* a call cancelled on the full queue of its second subscriber has ended:
\* the first subscriber has the payload, the second has not
C16_Witness ==
    \E i \in TriggerIds, j \in SubIds, k \in SubIds :
        /\ pc[T(i)] = "cancelled"
        /\ pc[S(j)] = "open" /\ pc[S(k)] = "open"
        /\ reg_at[j] < Pos(i) /\ reg_at[k] < Pos(i)
        /\ i \in Elems(Got(j))
        /\ i \notin Elems(Got(k))
        /\ Len(data[k]) = Capacity

\* C17: in every state where no task is inside a locked region of an Event
\* its lock is not owned and nobody is parked on it, and a trigger() or
\* subscribe() called in such a state is inside its locked region at once.
C17_LockReleasedOnExit ==
    /\ [](\A e \in EventNames : InRegion(e) = {} =>
            lock_owner[e] = None /\ lock_lot[e] = <<>>)
    /\ [][\A e \in EventNames, t \in Tasks :
            (/\ InRegion(e) = {}
             /\ pc[t] = "idle" /\ pc'[t] # "idle"
             /\ event_of'[t] = e)
            => t \in InRegion(e)']_vars

\* one trigger() left by cancellation, one by a delivery that raised, one
\* subscription left normally, and the lock is free
C17_Witness ==
    /\ \E i \in TriggerIds : pc[T(i)] = "cancelled"
    /\ \E i \in TriggerIds : pc[T(i)] = "broken"
    /\ \E j \in SubIds : pc[S(j)] = "exited"
    /\ \A e \in EventNames : InRegion(e) = {} /\ lock_owner[e] = None

\* C18 as stated: a trigger() call is never parked on the queue of a
\* subscriber that has left its scope, and a subscriber that left its scope
\* while a trigger() call was parked on its full queue is eventually out of
\* subscribe(), its endpoint removed.
C18_LeavingSubscriberExits ==
    /\ [](\A i \in TriggerIds, j \in SubIds :
            BlockedOn(i, j) => pc[S(j)] = "open")
    /\ \A j \in SubIds :
          LeftStalledPublisher(j) ~> (pc[S(j)] = "exited" /\ ~Registered(j))

\* C18, amended: a trigger() call is never parked on the queue of a
\* subscriber that has left its scope, and a subscriber that left its scope
\* while a trigger() call was parked on its full queue is eventually out of
\* subscribe(), its endpoint removed, unless from some point on a trigger()
\* call of the same Event stays parked on the full queue of another
\* subscriber.
C18_NoDeadlockWithLeavingSubscriber ==
    /\ [](\A i \in TriggerIds, j \in SubIds :
            BlockedOn(i, j) => pc[S(j)] = "open")
    /\ \A j \in SubIds :
          [](LeftStalledPublisher(j) =>
                \/ <>(pc[S(j)] = "exited" /\ ~Registered(j))
                \/ <>[]StalledElsewhere(j))

\* the stalled trigger() was woken by the close and still holds the lock,
\* the leaving subscriber is parked in the finally block's Lock.acquire()
C18_Witness ==
    \E i \in TriggerIds, j \in SubIds :
        /\ pc[T(i)] = "woken_broken"
        /\ pc[S(j)] = "unsub_wait"
        /\ EvT(i) = EvS(j)
        /\ lock_owner[EvS(j)] = T(i)

\* C19: if every subscriber takes a payload whenever its queue stays
\* non-empty and none ever closes its handle, every trigger() call that was
\* made eventually has returned with its payload delivered to every
\* subscriber registered before it took the lock.
C19_TriggerCompletes ==
    (/\ \A j \in SubIds : WF_vars(Receive(j))
     /\ [](\A j \in SubIds : ~recv_closed[j]))
    => \A i \in TriggerIds : [](pc[T(i)] # "idle" => <>Completed(i))

\* more calls than a queue holds have all returned, and every subscriber
\* has received every payload in lock order
C19_Witness ==
    /\ \A i \in TriggerIds : Completed(i)
    /\ \A j \in SubIds :
          pc[S(j)] = "open" /\ received[j] = lock_order[MainEvent]
    /\ Len(lock_order[MainEvent]) = MaxTriggers

\* C20: a step of a trigger() call on one Event leaves the lock, the
\* subscriber set and the queues of every other Event unchanged; only tasks
\* of an Event own or wait for its lock, and they wait only while one of
\* them is inside its locked region; and a trigger(), subscribe() or
\* unsubscription that reaches the lock of an Event with no task inside its
\* region is inside at once, whatever is stalled on another Event.
C20_IndependentEvents ==
    /\ [][\A i \in TriggerIds, f \in EventNames :
            (/\ pc'[T(i)] # pc[T(i)] \/ visited'[i] # visited[i]
             /\ f # event_of'[T(i)])
            => /\ channels'[f] = channels[f]
               /\ lock_owner'[f] = lock_owner[f]
               /\ lock_lot'[f] = lock_lot[f]
               /\ \A j \in SubIds : EvS(j) = f =>
                     /\ data'[j] = data[j]
                     /\ send_tasks'[j] = send_tasks[j]
                     /\ received'[j] = received[j]]_vars
    /\ [](\A f \in EventNames :
            /\ lock_owner[f] # None => event_of[lock_owner[f]] = f
            /\ \A t \in Elems(lock_lot[f]) :
                  event_of[t] = f /\ InRegion(f) # {})
    /\ [][\A t \in Tasks, f \in EventNames :
            (/\ pc[t] \in {"idle", "closed"}
             /\ pc'[t] \notin {"idle", "closed"}
             /\ event_of'[t] = f
             /\ InRegion(f) = {})
            => t \in InRegion(f)']_vars

\* a trigger() call is parked on a full queue of one Event with the lock
\* held, while on the other Event a subscriber is registered and a
\* trigger() call has delivered to it and returned
C20_Witness ==
    \E i \in TriggerIds, k \in TriggerIds, j \in SubIds :
        /\ pc[T(i)] = "blocked"
        /\ EvT(k) \in EventNames \ {EvT(i)}
        /\ pc[T(k)] = "returned"
        /\ EvS(j) = EvT(k) /\ pc[S(j)] = "open"
        /\ k \in Elems(data[j])
====================================================================
